---- MODULE Spec2Model ----
(***************************************************************************)
(* A model of pyludus.process: the Process supervisor of one child process *)
(* and the NonBlockingReadingIO reader that drains the child's stderr.     *)
(*                                                                         *)
(* One caller thread drives one Process instance; the child runs beside it *)
(* as an independent OS process.  A blocking call of the caller (wait, a   *)
(* read of stdout, the poll loop of NonBlockingReadingIO.read) and every  *)
(* place where a call looks at the child again (the liveness check and    *)
(* the signal of close, the check and the flush of write, the three looks *)
(* of __exit__) is a position of the caller, pc, and the child's steps    *)
(* interleave with the caller's.                                           *)
(*                                                                         *)
(* Python's None is the empty tuple << >> and a value x that may be None   *)
(* is << x >>.  A byte string is a sequence of bytes; the bytes the child  *)
(* writes to stderr are numbered 1, 2, ... in the order written.  The      *)
(* value of a PATH-like variable is the sequence of its ":"-separated      *)
(* entries, so that ":".join is concatenation of entry sequences.          *)
(***************************************************************************)
EXTENDS Integers, Sequences, FiniteSets, TLC

(***************************************************************************)
(* Bounds of the model.                                                    *)
(***************************************************************************)
\* the most bytes a child program writes to stderr
MaxErr == 3
\* the most bytes a child program writes to stdout
MaxOut == 2
\* the capacity of an OS pipe, in bytes
PipeCap == 2
\* the largest n given to read_error(n), read(n), readline(limit)
MaxN == 2
\* the most bytes given to one write(data)
MaxWrite == 3

(***************************************************************************)
(* Program constants.                                                      *)
(***************************************************************************)
\* the default of NonBlockingReadingIO.buffer_size
DefaultBufferSize == 512
\* io.DEFAULT_BUFFER_SIZE, the buffer of the BufferedReader that Popen puts
\* over the stdout pipe
DEFAULT_BUFFER_SIZE == 8192
\* Popen.terminate() sends SIGTERM, Popen.kill() sends SIGKILL; a child
\* killed by signal s has returncode -s
SIGTERM == 15
SIGKILL == 9

None == << >>
Some(x) == << x >>

Min(a, b) == IF a < b THEN a ELSE b

\* the byte that ends a line, and the bytes a child writes to stdout: a
\* prefix of OutData
NL == 10
OutData == << 104, NL, 105 >>

(***************************************************************************)
(* The parent's environment and module search path (os.environ, sys.path). *)
(***************************************************************************)
os_environ == [PATH |-> << "/usr/bin", "/bin" >>, HOME |-> << "/root" >>]
sys_path == << "/app", "/lib/python" >>

VARIABLES
    environ,      \* os.environ of the parent, as it is now
    envGot        \* the mapping the last create_env() call returned, or None

(***************************************************************************)
(* Process.create_env.  The result is [ok, env]: ok = FALSE is the         *)
(* KeyError of reading env["PATH"] in a mapping without that key.          *)
(***************************************************************************)
HasKey(env, k) == k \in DOMAIN env

\* dict.update: the keys of upd win
Update(env, upd) ==
    [k \in (DOMAIN env) \cup (DOMAIN upd) |->
        IF k \in DOMAIN upd THEN upd[k] ELSE env[k]]

\* env[k] = v
SetKey(env, k, v) == [x \in (DOMAIN env) \cup {k} |-> IF x = k THEN v ELSE env[x]]

EmptyEnv == [k \in {} |-> << >>]
KeyError == [ok |-> FALSE, env |-> EmptyEnv]

\* lines 54-56: the inherited variables, sys.path put before their PATH
inherit_step(c) ==
    IF c.inherit_env
    THEN IF HasKey(environ, "PATH")
         THEN [ok |-> TRUE,
               env |-> SetKey(environ, "PATH", sys_path \o environ["PATH"])]
         ELSE KeyError
    ELSE [ok |-> TRUE, env |-> EmptyEnv]

\* lines 57-58: aux_env laid over them
aux_env_step(c, r) ==
    IF r.ok /\ c.aux_env # None
    THEN [ok |-> TRUE, env |-> Update(r.env, c.aux_env[1])]
    ELSE r

\* lines 59-60: aux_paths put before PATH
aux_paths_step(c, r) ==
    IF r.ok /\ c.aux_paths # None
    THEN IF HasKey(r.env, "PATH")
         THEN [ok |-> TRUE,
               env |-> SetKey(r.env, "PATH", c.aux_paths[1] \o r.env["PATH"])]
         ELSE KeyError
    ELSE r

create_env(c) == aux_paths_step(c, aux_env_step(c, inherit_step(c)))

\* create_env() working on os.environ itself instead of a copy of it
environ_aliased(c) ==
    IF c.inherit_env /\ create_env(c).ok THEN create_env(c).env ELSE environ

\* os.environ after create_env(): line 55 reads a copy, the parent's
\* mapping is left as it was
environ_after(c) == environ

(***************************************************************************)
(* Configurations of an instance (the dataclass fields) and child          *)
(* programs (what the command named by args does).                         *)
(***************************************************************************)
Config(inh, aenv, apaths) ==
    [inherit_env |-> inh, aux_env |-> aenv, aux_paths |-> apaths]

\* Process(args), and Process(args, inherit_env=False, aux_paths=["/opt"])
\* the Process that Ludus.create_process builds
LudusConfig ==
    Config(TRUE, None, Some(<< "/ludus/scripts", "/home/kani/.conda3/envs/apollo/bin" >>))

\* the configurations the lifecycle is explored with: the one Ludus uses,
\* and one whose create_env() raises
SpecConfigs == { LudusConfig, Config(FALSE, None, Some(<< "/opt" >>)) }

\* a child writes err bytes to stderr and out bytes to stdout, then exits
\* with code if exits, else runs until a signal ends it; it may read its
\* stdin, and it may ignore SIGTERM
Program(e, o, r, x, i, c) ==
    [err |-> e, out |-> o, reads |-> r, exits |-> x, ignoresTerm |-> i,
     code |-> c]

\* a quiet command that succeeds, a noisy one that fails, a server that
\* logs to stderr, reads nothing and ignores SIGTERM, and a filter that
\* reads its stdin, prints to stdout and stays
Programs ==
    { Program(0, 0, FALSE, TRUE, FALSE, 0),
      Program(MaxErr, 0, FALSE, TRUE, FALSE, 1),
      Program(MaxErr, 0, FALSE, FALSE, TRUE, 0),
      Program(0, MaxOut, TRUE, FALSE, FALSE, 0) }

BufferSizes == {1, DefaultBufferSize}

VARIABLES
    cfg,          \* the instance's configuration fields
    prog,         \* what the command of args does once spawned
    buffer_size,  \* NonBlockingReadingIO.buffer_size
    process,      \* self._process: None, or Some("Popen")
    returncode,   \* self._process.returncode: None until poll()/wait() reaps
    pc,           \* the caller's position
    n,            \* the local n of the read in progress (None, or Some(k))
    ret,          \* the local ret of the read in progress
    res,          \* the outcome of the caller's last operation
    scope,        \* the with statement: "none", "in", "done"
    blockExc,     \* whether the with block raised
    propagated,   \* what the with statement raised to its caller
    logged,       \* number of errors __exit__ has logged (0 or 1)
    child,        \* the OS process: "none", "alive", "exited"
    exitstatus,   \* the exit code of the exited child
    spawned,      \* number of children ever spawned
    errpipe,      \* the bytes in the stderr pipe
    errWritten,   \* number of bytes the child has written to stderr
    errGot,       \* all bytes read_error has returned, in order
    outpipe,      \* the bytes in the stdout pipe
    outWritten,   \* number of bytes the child has written to stdout
    outbuf,       \* the bytes held by the BufferedReader over stdout
    inpipe,       \* number of bytes in the stdin pipe
    tried,        \* whether open() has been called on the instance
    sig           \* the signals sent and not yet delivered, oldest first

config == << cfg, prog, buffer_size >>
envvars == << environ, envGot >>
caller == << process, returncode, pc, n, ret, res, tried >>
withvars == << scope, blockExc, propagated, logged >>
osvars == << child, exitstatus, spawned, sig >>
outerr == << errpipe, errWritten, errGot, outpipe, outWritten, outbuf >>
pipes == << outerr, inpipe >>
vars == << config, envvars, caller, withvars, osvars, pipes >>

\* the outcome of an operation: kind is "ok" when it returned, "pending"
\* while it runs, else the error it raised; arg is the argument it was
\* given (the n of a read, the kill of close); code
\* the exit code, flag the truth value and data the bytes it returned
Result(op, kind, code, flag, data) ==
    [op |-> op, kind |-> kind, arg |-> None, code |-> code, flag |-> flag,
     data |-> data]
Raised(op, kind) == Result(op, kind, None, FALSE, << >>)
Pending(op, k) == [Raised(op, "pending") EXCEPT !.arg = k]
Returned(r, data) == [r EXCEPT !.kind = "ok", !.data = data]

\* a new instance, nothing spawned yet
Fresh ==
    /\ environ = os_environ
    /\ envGot = None
    /\ process = None
    /\ returncode = None
    /\ pc = "idle"
    /\ n = None
    /\ ret = << >>
    /\ res = Raised("new", "ok")
    /\ scope = "none"
    /\ blockExc = FALSE
    /\ propagated = "none"
    /\ logged = 0
    /\ child = "none"
    /\ exitstatus = None
    /\ spawned = 0
    /\ errpipe = << >>
    /\ errWritten = 0
    /\ errGot = << >>
    /\ outpipe = << >>
    /\ outWritten = 0
    /\ outbuf = << >>
    /\ inpipe = 0
    /\ tried = FALSE
    /\ sig = << >>

Init ==
    /\ cfg \in SpecConfigs
    /\ prog \in Programs
    /\ buffer_size = DefaultBufferSize
    /\ Fresh

(***************************************************************************)
(* The child and the OS.                                                   *)
(***************************************************************************)
\* the child writes its next byte to stderr; a full pipe blocks it
ChildWriteErr ==
    /\ child = "alive"
    /\ errWritten < prog.err
    /\ Len(errpipe) < PipeCap
    /\ errpipe' = Append(errpipe, errWritten + 1)
    /\ errWritten' = errWritten + 1
    /\ UNCHANGED << config, envvars, caller, withvars, osvars, errGot, outpipe,
                    outWritten, outbuf, inpipe >>

\* the child writes its next byte to stdout; a full pipe blocks it
ChildWriteOut ==
    /\ child = "alive"
    /\ outWritten < prog.out
    /\ Len(outpipe) < PipeCap
    /\ outpipe' = Append(outpipe, OutData[outWritten + 1])
    /\ outWritten' = outWritten + 1
    /\ UNCHANGED << config, envvars, caller, withvars, osvars, errpipe, errWritten,
                    errGot, outbuf, inpipe >>

\* the child reads what is in its stdin pipe
ChildReadIn ==
    /\ child = "alive"
    /\ prog.reads
    /\ inpipe > 0
    /\ inpipe' = 0
    /\ UNCHANGED << config, envvars, caller, withvars, osvars, outerr >>

\* the child exits on its own once it has written all its output; the
\* signals on their way to it have no effect, and what is left in its
\* stdin pipe has no reader any more
ChildExit ==
    /\ child = "alive"
    /\ prog.exits
    /\ errWritten = prog.err
    /\ outWritten = prog.out
    /\ child' = "exited"
    /\ exitstatus' = Some(prog.code)
    /\ sig' = << >>
    /\ inpipe' = 0
    /\ UNCHANGED << config, envvars, caller, withvars, spawned, outerr >>

\* the oldest pending signal is delivered: SIGKILL ends the child, SIGTERM
\* ends it unless the child ignores it; the signal that ends the child
\* gives its exit status, whatever was sent after it
ChildSignal ==
    /\ child = "alive"
    /\ sig # << >>
    /\ IF Head(sig) = "KILL" \/ ~prog.ignoresTerm
       THEN /\ child' = "exited"
            /\ exitstatus' = Some(IF Head(sig) = "KILL" THEN 0 - SIGKILL
                                  ELSE 0 - SIGTERM)
            /\ sig' = << >>
            /\ inpipe' = 0
       ELSE /\ sig' = Tail(sig)
            /\ UNCHANGED << child, exitstatus, inpipe >>
    /\ UNCHANGED << config, envvars, caller, withvars, spawned, outerr >>

(***************************************************************************)
(* Process: liveness and lifecycle.                                        *)
(***************************************************************************)
\* is_run() that takes every instance as started
is_run_always == TRUE

is_run == process # None

\* Popen.poll() that forgets the code once the child is reaped
Popen_poll_uncached ==
    IF child = "exited" /\ returncode = None THEN exitstatus ELSE None

\* Popen.poll(): the cached returncode, else the exit status of a child that
\* has exited (reaped now), else None
Popen_poll ==
    IF returncode # None THEN returncode
    ELSE IF child = "exited" THEN exitstatus ELSE None

\* is_alive() on a started instance
alive_now == Popen_poll = None

\* open() without its check of self._process
open_outcomes_unchecked ==
    IF ~create_env(cfg).ok THEN {"KeyError"} ELSE {"ok", "OSError"}

\* how a call of open() ends: "ok", or the error it raises
open_outcomes ==
    IF process # None THEN {"ProcessError"}
    ELSE IF ~create_env(cfg).ok THEN {"KeyError"}
    ELSE {"ok", "OSError"}

\* the body of open(): subprocess.Popen(...), a new Popen object with no
\* returncode yet, and the reader over its stderr (lines 67-75); an open()
\* that raises assigns nothing
Spawn(kind) ==
    /\ tried' = TRUE
    /\ IF kind = "ok"
       THEN /\ process' = Some("Popen")
            /\ returncode' = None
            /\ child' = "alive"
            /\ spawned' = spawned + 1
       ELSE UNCHANGED << process, returncode, child, spawned >>

\* open(); res.flag tells whether open() had been called before
open ==
    /\ pc = "idle"
    /\ \E kind \in open_outcomes :
          /\ Spawn(kind)
          /\ res' = Result("open", kind, None, tried, << >>)
    /\ UNCHANGED << config, envvars, pc, n, ret, withvars, exitstatus, sig, pipes >>

\* run_sync that returns the returncode without waiting for the child
run_sync_nowait ==
    /\ pc = "idle"
    /\ \E kind \in open_outcomes :
          /\ Spawn(kind)
          /\ res' = IF kind # "ok"
                    THEN Result("run_sync", kind, None, tried, << >>)
                    ELSE Result("run_sync", "ok", returncode', tried, << >>)
    /\ UNCHANGED << config, envvars, pc, n, ret, withvars, exitstatus, sig, pipes >>

\* run_sync: open(), then wait() inside try/except ProcessError.  wait()
\* raises ProcessError only from check_run(), when self._process is None,
\* and the handler's self._process.returncode then has no object to read
\* (AttributeError); res.flag tells whether open() had been called before
run_sync ==
    /\ pc = "idle"
    /\ \E kind \in open_outcomes :
          /\ Spawn(kind)
          /\ IF kind # "ok"
             THEN /\ res' = Result("run_sync", kind, None, tried, << >>)
                  /\ pc' = pc
             ELSE IF process' = None
             THEN /\ res' = Result("run_sync", "AttributeError", None, tried, << >>)
                  /\ pc' = pc
             ELSE /\ res' = [Pending("run_sync", None) EXCEPT !.flag = tried]
                  /\ pc' = "wait"
    /\ UNCHANGED << config, envvars, n, ret, withvars, exitstatus, sig, pipes >>

\* wait(timeout): a child that has exited is reaped at once; otherwise the
\* caller blocks; res.flag tells that the code returned was already cached
wait ==
    /\ pc = "idle"
    /\ \E timed \in BOOLEAN :
          IF ~is_run
          THEN /\ res' = Raised("wait", "ProcessError")
               /\ UNCHANGED << returncode, pc >>
          ELSE IF Popen_poll # None
          THEN /\ returncode' = Popen_poll
               /\ res' = Result("wait", "ok", Popen_poll, returncode # None, << >>)
               /\ pc' = pc
          ELSE /\ res' = Pending("wait", None)
               /\ pc' = IF timed THEN "wait_timed" ELSE "wait"
               /\ UNCHANGED returncode
    /\ UNCHANGED << config, envvars, process, n, ret, tried, withvars, osvars, pipes >>

\* the blocked wait() returns once the child has exited (line 108)
wait_return ==
    /\ pc \in {"wait", "wait_timed"}
    /\ child = "exited"
    /\ returncode' = Popen_poll
    /\ res' = [res EXCEPT !.kind = "ok", !.code = Popen_poll]
    /\ pc' = "idle"
    /\ UNCHANGED << config, envvars, process, n, ret, tried, withvars, osvars, pipes >>

\* the timeout of wait(timeout) passes with the child still running
wait_timeout ==
    /\ pc = "wait_timed"
    /\ child = "alive"
    /\ res' = [res EXCEPT !.kind = "TimeoutExpired"]
    /\ pc' = "idle"
    /\ UNCHANGED << config, envvars, process, returncode, n, ret, tried, withvars, osvars, pipes >>

\* is_alive() that looks at the child without keeping its exit code
is_alive_nocache ==
    /\ pc = "idle"
    /\ res' = IF ~is_run THEN Raised("is_alive", "ProcessError")
              ELSE Result("is_alive", "ok", None, alive_now, << >>)
    /\ UNCHANGED << config, envvars, process, returncode, pc, n, ret, tried, withvars, osvars, pipes >>

\* is_alive(): check_run(), then Popen.poll(), which keeps the exit code of
\* a child it finds dead; res.flag is the answer
is_alive ==
    /\ pc = "idle"
    /\ IF ~is_run
       THEN /\ res' = Raised("is_alive", "ProcessError")
            /\ UNCHANGED returncode
       ELSE /\ returncode' = Popen_poll
            /\ res' = Result("is_alive", "ok", None, alive_now, << >>)
    /\ UNCHANGED << config, envvars, process, pc, n, ret, tried, withvars, osvars, pipes >>

\* close(kill) that sends SIGTERM whatever kill says
close_signal_term(kill) == "TERM"

\* the signal close(kill) sends
close_signal(kill) == IF kill THEN "KILL" ELSE "TERM"

\* check_alive() that only checks that the instance has run
check_alive_started == IF ~is_run THEN "ProcessError" ELSE "ok"

\* how check_alive() ends
check_alive_outcome ==
    IF ~is_run THEN "ProcessError"
    ELSE IF ~alive_now THEN "ProcessError" ELSE "ok"

\* whether signal s is among the signals q on their way to the child
InQueue(q, s) == \E i \in DOMAIN q : q[i] = s

\* os.kill(pid, s): the signal joins those pending for the child; a signal
\* already pending is not queued a second time
os_kill(s) == IF InQueue(sig, s) THEN sig ELSE Append(sig, s)

\* Popen.kill() / Popen.terminate(): send_signal polls the child first and
\* sends nothing to a child it finds dead, whose exit code it keeps
send_signal(s) ==
    /\ returncode' = Popen_poll
    /\ sig' = IF Popen_poll = None THEN os_kill(s) ELSE sig

\* close(kill): the check_alive() of line 111; a close() that passes it
\* goes on to send the signal
close ==
    /\ pc = "idle"
    /\ \E kill \in BOOLEAN :
          IF check_alive_outcome # "ok"
          THEN /\ res' = Raised("close", check_alive_outcome)
               /\ returncode' = IF is_run THEN Popen_poll ELSE returncode
               /\ pc' = pc
          ELSE /\ res' = Pending("close", Some(kill))
               /\ pc' = "close_send"
               /\ UNCHANGED returncode
    /\ UNCHANGED << config, envvars, process, n, ret, tried, withvars, osvars, pipes >>

\* lines 112-115: self._process.kill() or self._process.terminate();
\* close() returns None whether or not the signal went out, and res.flag
\* tells whether it did
close_send ==
    /\ pc = "close_send"
    /\ send_signal(close_signal(res.arg[1]))
    /\ res' = [res EXCEPT !.kind = "ok", !.flag = (Popen_poll = None)]
    /\ pc' = "idle"
    /\ UNCHANGED << config, envvars, process, n, ret, tried, withvars, child,
                    exitstatus, spawned, pipes >>

\* return_code() that only checks that the instance has run
return_code_started == IF ~is_run THEN "ProcessError" ELSE "ok"

\* how return_code() ends (lines 154-155); is_alive() is not evaluated on
\* an instance that has not run
return_code_outcome ==
    IF ~(is_run /\ ~alive_now) THEN "ProcessError" ELSE "ok"

return_code ==
    /\ pc = "idle"
    /\ returncode' = IF is_run THEN Popen_poll ELSE returncode
    /\ res' = IF return_code_outcome # "ok"
              THEN Raised("return_code", return_code_outcome)
              ELSE Result("return_code", "ok", Popen_poll, FALSE, << >>)
    /\ UNCHANGED << config, envvars, process, pc, n, ret, tried, withvars, osvars, pipes >>

\* create_env() called by the caller: the mapping comes back in envGot, or
\* KeyError is raised
create_env_call ==
    /\ pc = "idle"
    /\ LET r == create_env(cfg) IN
          /\ res' = Raised("create_env", IF r.ok THEN "ok" ELSE "KeyError")
          /\ envGot' = IF r.ok THEN Some(r.env) ELSE None
    /\ environ' = environ_after(cfg)
    /\ UNCHANGED << config, process, returncode, pc, n, ret, tried, withvars, osvars, pipes >>

(***************************************************************************)
(* NonBlockingReadingIO.read over the child's stderr, and read_error.      *)
(***************************************************************************)
\* self._poll.poll(1) is non-empty: data to read (POLLIN), or every writer
\* of the pipe is gone because the child has exited (POLLHUP, which poll
\* reports whatever events were registered)
poll_ready == Len(errpipe) > 0 \/ child = "exited"

\* the size given to os.read: buffer_size (line 29), min(buffer_size, n)
\* (line 32)
read_size == IF n = None THEN buffer_size ELSE Min(buffer_size, n[1])

\* os.read(fd, size): at most size of the bytes in the pipe, b"" at end of
\* stream and for size 0
os_read(size) == SubSeq(errpipe, 1, Min(size, Len(errpipe)))

\* the arguments a caller gives for n
Sizes == {None} \cup {Some(k) : k \in 0..MaxN}

\* read_error(n): check_run(), then NonBlockingReadingIO.read(n) starts
read_error_n(k) ==
    /\ pc = "idle"
    /\ IF ~is_run
       THEN /\ res' = Raised("read_error", "ProcessError")
            /\ UNCHANGED << pc, n, ret >>
       ELSE /\ res' = Pending("read_error", k)
            /\ pc' = "rd_poll"
            /\ n' = k
            /\ ret' = << >>
    /\ UNCHANGED << config, envvars, process, returncode, tried, withvars, osvars, pipes >>

read_error == \E k \in Sizes : read_error_n(k)

\* the loop condition (lines 28, 31): a poll round; not ready ends the loop
\* and the call returns ret (line 35)
read_poll ==
    /\ pc = "rd_poll"
    /\ IF poll_ready
       THEN /\ pc' = "rd_read"
            /\ UNCHANGED << res, errGot, n, ret >>
       ELSE /\ pc' = "idle"
            /\ res' = Returned(res, ret)
            /\ errGot' = errGot \o ret
            /\ n' = None
            /\ ret' = << >>
    /\ UNCHANGED << config, envvars, process, returncode, tried, withvars, osvars,
                    errpipe, errWritten, outpipe, outWritten, outbuf, inpipe >>

\* the loop body (lines 29, 32-34): one os.read, appended to ret
read_chunk ==
    /\ pc = "rd_read"
    /\ LET r == os_read(read_size) IN
          /\ errpipe' = SubSeq(errpipe, Len(r) + 1, Len(errpipe))
          /\ ret' = ret \o r
          /\ n' = IF n = None THEN n ELSE Some(n[1] - Len(r))
    /\ pc' = "rd_poll"
    /\ UNCHANGED << config, envvars, process, returncode, res, tried, withvars, osvars,
                    errWritten, errGot, outpipe, outWritten, outbuf, inpipe >>

(***************************************************************************)
(* read and readline: blocking reads of the child's stdout.                *)
(***************************************************************************)
\* read(n) / readline(limit): check_run(), then the read of stdout starts
read ==
    /\ pc = "idle"
    /\ \E k \in Sizes, op \in {"read", "readline"} :
          IF ~is_run
          THEN /\ res' = Raised(op, "ProcessError")
               /\ UNCHANGED << pc, n, ret >>
          ELSE /\ res' = Pending(op, k)
               /\ pc' = "out_read"
               /\ n' = k
               /\ ret' = << >>
    /\ UNCHANGED << config, envvars, process, returncode, tried, withvars, osvars, pipes >>

\* the read of stdout has all it asked for: n bytes, a whole line for
\* readline, or the end of the stream
out_complete ==
    \/ n # None /\ Len(ret) >= n[1]
    \/ res.op = "readline" /\ ret # << >> /\ ret[Len(ret)] = NL
    \/ outbuf = << >> /\ outpipe = << >> /\ child = "exited"

\* how many bytes the read in progress takes out of the BufferedReader's
\* buffer: those it still asks for, for readline up to the first newline
buf_take ==
    LET want == IF n = None THEN Len(outbuf)
                ELSE Min(n[1] - Len(ret), Len(outbuf))
        nls == { i \in 1..want : outbuf[i] = NL }
    IN  IF res.op = "readline" /\ nls # {}
        THEN CHOOSE i \in nls : \A j \in nls : i <= j
        ELSE want

\* stdout.read / stdout.readline on the BufferedReader that Popen puts
\* over the stdout pipe: the call returns what it has, or takes bytes out
\* of the buffer, or, the buffer empty, fills it with one read of the
\* pipe, which takes all the bytes pending there (up to the buffer's size)
stdout_read ==
    /\ pc = "out_read"
    /\ IF out_complete
       THEN /\ pc' = "idle"
            /\ res' = Returned(res, ret)
            /\ n' = None
            /\ ret' = << >>
            /\ UNCHANGED << outpipe, outbuf >>
       ELSE IF outbuf # << >>
       THEN /\ ret' = ret \o SubSeq(outbuf, 1, buf_take)
            /\ outbuf' = SubSeq(outbuf, buf_take + 1, Len(outbuf))
            /\ UNCHANGED << pc, res, n, outpipe >>
       ELSE /\ outpipe # << >>
            /\ outbuf' = SubSeq(outpipe, 1, Min(DEFAULT_BUFFER_SIZE, Len(outpipe)))
            /\ outpipe' = SubSeq(outpipe, Min(DEFAULT_BUFFER_SIZE, Len(outpipe)) + 1,
                                 Len(outpipe))
            /\ UNCHANGED << pc, res, n, ret >>
    /\ UNCHANGED << config, envvars, process, returncode, tried, withvars, osvars,
                    errpipe, errWritten, errGot, outWritten, inpipe >>

(***************************************************************************)
(* write: check_alive(), then stdin.write and stdin.flush.                 *)
(***************************************************************************)
\* write(data) with len bytes of data: res.arg is len, and n counts the
\* bytes that have still to go into the stdin pipe
write ==
    /\ pc = "idle"
    /\ \E len \in 0..MaxWrite :
          IF check_alive_outcome # "ok"
          THEN /\ res' = Raised("write", check_alive_outcome)
               /\ returncode' = IF is_run THEN Popen_poll ELSE returncode
               /\ UNCHANGED << pc, n >>
          ELSE /\ res' = Pending("write", Some(len))
               /\ pc' = "write_io"
               /\ n' = Some(len)
               /\ UNCHANGED returncode
    /\ UNCHANGED << config, envvars, process, ret, tried, withvars, osvars, pipes >>

\* lines 119-121: stdin.write and stdin.flush.  With nothing left to push
\* (empty data included, which makes no system call) write() returns the
\* length of data, and res.flag tells that it was written; the pipe of a
\* child that has exited has no reader and the flush raises
\* BrokenPipeError; else the bytes that fit go into the pipe, and a full
\* pipe blocks the flush until the child reads or ends
write_flush ==
    /\ pc = "write_io"
    /\ IF n = Some(0)
       THEN /\ res' = [res EXCEPT !.kind = "ok", !.flag = TRUE]
            /\ pc' = "idle"
            /\ n' = None
            /\ UNCHANGED inpipe
       ELSE IF child # "alive"
       THEN /\ res' = [res EXCEPT !.kind = "BrokenPipeError"]
            /\ pc' = "idle"
            /\ n' = None
            /\ UNCHANGED inpipe
       ELSE /\ inpipe < PipeCap
            /\ inpipe' = inpipe + Min(n[1], PipeCap - inpipe)
            /\ n' = Some(n[1] - Min(n[1], PipeCap - inpipe))
            /\ UNCHANGED << pc, res >>
    /\ UNCHANGED << config, envvars, process, returncode, ret, tried, withvars, osvars,
                    outerr >>

(***************************************************************************)
(* Scoped use: with Process(...) as p: block.                              *)
(***************************************************************************)
\* __enter__: open(); the block is entered when open() returns
__enter__ ==
    /\ pc = "idle"
    /\ scope = "none"
    /\ \E kind \in open_outcomes :
          /\ Spawn(kind)
          /\ res' = Result("__enter__", kind, None, tried, << >>)
          /\ scope' = IF kind = "ok" THEN "in" ELSE scope
    /\ UNCHANGED << config, envvars, pc, n, ret, blockExc, propagated, logged,
                    exitstatus, sig, pipes >>

\* what the with statement raises once __exit__ has returned None: the
\* error of the block, if it raised one
after_exit(exc) == IF exc THEN "BlockError" ELSE "none"

\* the block ends, normally or by an error, and __exit__ runs its liveness
\* check (lines 145-146)
__exit__ ==
    /\ pc = "idle"
    /\ scope = "in"
    /\ \E exc \in BOOLEAN :
          /\ blockExc' = exc
          /\ IF ~is_run
             THEN /\ res' = Raised("__exit__", "ProcessError")
                  /\ propagated' = "ProcessError"
                  /\ scope' = "done"
                  /\ UNCHANGED << returncode, pc >>
             ELSE /\ returncode' = Popen_poll
                  /\ IF alive_now
                     THEN /\ res' = Pending("__exit__", None)
                          /\ pc' = "exit_close"
                          /\ UNCHANGED << propagated, scope >>
                     ELSE /\ res' = Result("__exit__", "ok", None, FALSE, << >>)
                          /\ propagated' = after_exit(exc)
                          /\ scope' = "done"
                          /\ pc' = pc
    /\ UNCHANGED << config, envvars, process, n, ret, tried, logged, osvars, pipes >>

\* what __exit__ does with the outcome of its close(): a ProcessError is
\* logged (lines 149-151), and __exit__ returns None either way
exit_logs(outcome) == IF outcome = "ProcessError" THEN 1 ELSE 0

\* __exit__ without the try/except around close()
exit_raises_uncaught(outcome) ==
    IF outcome = "ProcessError" THEN "ProcessError" ELSE "none"

exit_raises(outcome) == "none"

\* the close() of __exit__ (lines 147-148) runs its check_alive() (line
\* 111): a close() that passes it goes on to send the signal, one that
\* raises ProcessError ends __exit__
exit_close ==
    /\ pc = "exit_close"
    /\ LET outcome == check_alive_outcome IN
          /\ returncode' = Popen_poll
          /\ IF outcome = "ok"
             THEN /\ pc' = "exit_send"
                  /\ UNCHANGED << res, logged, propagated, scope >>
             ELSE /\ logged' = logged + exit_logs(outcome)
                  /\ propagated' = IF exit_raises(outcome) # "none"
                                   THEN exit_raises(outcome)
                                   ELSE after_exit(blockExc)
                  /\ res' = Result("__exit__", IF exit_raises(outcome) # "none"
                                               THEN exit_raises(outcome) ELSE "ok",
                                   None, FALSE, << >>)
                  /\ scope' = "done"
                  /\ pc' = "idle"
    /\ UNCHANGED << config, envvars, process, n, ret, tried, blockExc, osvars, pipes >>

\* the self._process.terminate() of that close() (line 115), after which
\* __exit__ returns None; res.flag tells whether the signal was sent
exit_send ==
    /\ pc = "exit_send"
    /\ send_signal(close_signal(FALSE))
    /\ res' = Result("__exit__", "ok", None, Popen_poll = None, << >>)
    /\ propagated' = after_exit(blockExc)
    /\ scope' = "done"
    /\ pc' = "idle"
    /\ UNCHANGED << config, envvars, process, n, ret, tried, blockExc, logged, child,
                    exitstatus, spawned, pipes >>

(***************************************************************************)
(* The holder of the instance lets it go.  Ludus.run_instance keeps its    *)
(* Process in a local: it calls open(), hands the Process to the caller's  *)
(* proc_fn, which may call any operation on it, then calls wait() and,     *)
(* for a child that failed, read_error(); when proc_fn raises, or when     *)
(* run_instance returns or raises, the local is released and the instance  *)
(* is dropped.  Process defines no finalizer: nothing runs at the drop.    *)
(***************************************************************************)
drop ==
    /\ pc = "idle"
    /\ scope # "in"
    /\ pc' = "gone"
    /\ res' = Raised("drop", "ok")
    /\ UNCHANGED << config, envvars, process, returncode, n, ret, tried, withvars,
                    osvars, pipes >>

Next ==
    \/ ChildWriteErr
    \/ ChildWriteOut
    \/ ChildExit
    \/ ChildSignal
    \/ ChildReadIn
    \/ open
    \/ run_sync
    \/ wait
    \/ wait_return
    \/ wait_timeout
    \/ is_alive
    \/ close
    \/ close_send
    \/ return_code
    \/ read_error
    \/ read_poll
    \/ read_chunk
    \/ read
    \/ stdout_read
    \/ write
    \/ write_flush
    \/ __enter__
    \/ __exit__
    \/ exit_close
    \/ exit_send
    \/ drop

Spec == Init /\ [][Next]_vars

(***************************************************************************)
(* The caller's thread goes on with the call it is in, and the OS runs the *)
(* child and delivers signals: weak fairness of every step but the         *)
(* caller's choice of a next operation.                                    *)
(***************************************************************************)
Fairness ==
    /\ WF_vars(ChildWriteErr)
    /\ WF_vars(ChildWriteOut)
    /\ WF_vars(ChildExit)
    /\ WF_vars(ChildSignal)
    /\ WF_vars(ChildReadIn)
    /\ WF_vars(close_send)
    /\ WF_vars(wait_return)
    /\ WF_vars(wait_timeout)
    /\ WF_vars(read_poll)
    /\ WF_vars(read_chunk)
    /\ WF_vars(stdout_read)
    /\ WF_vars(write_flush)
    /\ WF_vars(exit_close)
    /\ WF_vars(exit_send)

FairSpec == Spec /\ Fairness

(***************************************************************************)
(* A caller that opens the process and then drains its stderr with         *)
(* read_error(), call after call, while the child writes.                  *)
(***************************************************************************)
DrainNext ==
    \/ ChildWriteErr
    \/ ChildWriteOut
    \/ ChildExit
    \/ open
    \/ read_error_n(None)
    \/ read_poll
    \/ read_chunk

DrainFairness ==
    /\ WF_vars(ChildWriteErr)
    /\ WF_vars(ChildWriteOut)
    /\ WF_vars(ChildExit)
    /\ WF_vars(read_error_n(None))
    /\ WF_vars(read_poll)
    /\ WF_vars(read_chunk)

\* the reader is also taken with a buffer_size of its own
DrainInit ==
    /\ cfg \in SpecConfigs
    /\ prog \in Programs
    /\ buffer_size \in BufferSizes
    /\ Fresh

DrainSpec == DrainInit /\ [][DrainNext]_vars /\ DrainFairness

(***************************************************************************)
(* The lifecycle of an instance.                                           *)
(***************************************************************************)
State ==
    IF process = None THEN "Unstarted"
    ELSE IF returncode = None THEN "Running" ELSE "Terminated"

\* the operations that need a started instance
NeedStarted ==
    {"is_alive", "wait", "close", "write", "read", "read_error", "readline"}

\* C1: under every operation and every step of the child the lifecycle
\* state only moves Unstarted -> Running -> Terminated: no step leads back
\* to Unstarted or from Terminated to Running, an Unstarted instance is
\* never Terminated at once, and at most one child is ever spawned.
C1_LifecycleForward ==
    [][ /\ (State = "Unstarted" => State' \in {"Unstarted", "Running"})
        /\ (State = "Running" => State' \in {"Running", "Terminated"})
        /\ (State = "Terminated" => State' = "Terminated")
        /\ spawned' >= spawned
        /\ spawned' <= 1
        /\ (spawned' > spawned <=> (State = "Unstarted" /\ State' = "Running")) ]_vars

\* an open() on a Terminated instance has been refused, one child spawned
C1_Witness ==
    /\ State = "Terminated"
    /\ spawned = 1
    /\ res.op = "open"
    /\ res.kind = "ProcessError"

\* C2 (as claimed): an open() called after an earlier open() on the same
\* instance fails with ProcessError, whether the earlier call spawned the
\* child or failed.
C2_SecondOpenRefused ==
    (res.op = "open" /\ res.flag) => res.kind = "ProcessError"

\* C3: on an instance never opened, is_alive, wait, close, write, read,
\* read_error and readline raise ProcessError and change nothing: the
\* instance stays Unstarted, no child exists, no call is left in progress,
\* and open() is still not refused as already started.
C3_NotStarted ==
    [][ (process = None /\ res'.op \in NeedStarted)
            => /\ res'.kind = "ProcessError"
               /\ State' = "Unstarted"
               /\ pc' = "idle"
               /\ "ProcessError" \notin open_outcomes'
               /\ UNCHANGED << config, envvars, process, returncode, pc, n, ret, tried,
                               withvars, osvars, pipes >> ]_vars

\* a close() on an instance never opened has raised ProcessError
C3_Witness ==
    /\ process = None
    /\ ~tried
    /\ res.op = "close"
    /\ res.kind = "ProcessError"

\* C4: after open(), is_alive() returns true for as long as the child has
\* not exited and false once it has; once the exit code is known (wait()
\* has returned), is_alive() returns false, every close(), graceful or
\* kill, raises ProcessError, and no signal is sent any more.
C4_AliveThenClosed ==
    [][ /\ (res'.op = "is_alive" /\ process' # None /\ child' = "alive")
              => (res'.kind = "ok" /\ res'.flag)
        /\ (res'.op = "is_alive" /\ res' # res /\ child = "exited")
              => (res'.kind = "ok" /\ ~res'.flag)
        /\ (res'.op = "is_alive" /\ returncode # None)
              => (res'.kind = "ok" /\ ~res'.flag)
        /\ (res'.op = "close" /\ returncode # None)
              => (res'.kind = "ProcessError" /\ ~res'.flag)
        /\ (returncode # None => sig' = sig) ]_vars

\* the child has exited, its code is known, and a close() has been refused
C4_Witness ==
    /\ child = "exited"
    /\ returncode # None
    /\ res.op = "close"
    /\ res.kind = "ProcessError"
    /\ sig = << >>

\* C5: once the exit code c is known, it never changes, and every wait(),
\* with or without timeout, returns c at once and changes nothing.
C5_WaitIdempotent ==
    [][ /\ (returncode # None => returncode' = returncode)
        /\ (returncode # None /\ pc = "idle" /\ res'.op = "wait")
              => /\ res'.kind = "ok"
                 /\ res'.code = returncode
                 /\ res'.flag
                 /\ UNCHANGED << config, envvars, process, returncode, pc, n, ret, tried,
                                 withvars, osvars, pipes >> ]_vars

\* a wait() has returned the code of a child that was already waited for
C5_Witness ==
    /\ res.op = "wait"
    /\ res.kind = "ok"
    /\ res.flag
    /\ res.code = Some(1)
    /\ returncode = Some(1)

\* C6: return_code() raises ProcessError on an instance that has not run
\* or whose child is alive; when it returns, the child has exited and the
\* code is the child's exit code, which is also what wait() returns; no
\* exit code is known or returned while the child has not exited.
C6_ReturnCode ==
    /\ res.op = "return_code" => res.kind \in {"ok", "ProcessError"}
    /\ (res.op = "return_code" /\ res.kind = "ok")
          => /\ child = "exited"
             /\ res.code # None
             /\ res.code = exitstatus
             /\ res.code = returncode
    /\ (res.op = "return_code" /\ (process = None \/ child = "alive"))
          => res.kind = "ProcessError"
    /\ (res.op = "wait" /\ res.kind = "ok") => res.code = exitstatus
    /\ child # "exited" => (returncode = None /\ res.code = None)

\* return_code() has returned the code of a child ended by SIGTERM
C6_Witness ==
    /\ res.op = "return_code"
    /\ res.kind = "ok"
    /\ res.code = Some(0 - SIGTERM)

\* C7: run_sync() on an Unstarted instance never raises ProcessError; once
\* the child is spawned it only ever returns, and it does return when the
\* child has exited; what it returns is the child's exit code, the same
\* that wait() and return_code() give afterwards, with the instance
\* Terminated.
C7_RunSync ==
    /\ [] ((res.op = "run_sync" /\ res.kind = "ok")
              => /\ child = "exited"
                 /\ res.code # None
                 /\ res.code = exitstatus
                 /\ res.code = returncode
                 /\ State = "Terminated")
    /\ [] ((res.op \in {"wait", "return_code"} /\ res.kind = "ok")
              => res.code = exitstatus)
    /\ [][ /\ (exitstatus # None => exitstatus' = exitstatus)
           /\ (process = None /\ res'.op = "run_sync")
                 => res'.kind \in {"pending", "KeyError", "OSError"}
           /\ (res.op = "run_sync" /\ res.kind = "pending")
                 => (res'.op = "run_sync" /\ res'.kind \in {"pending", "ok"}) ]_vars
    /\ ((res.op = "run_sync" /\ res.kind = "pending" /\ child = "exited")
            ~> (res.op = "run_sync" /\ res.kind = "ok"))

\* run_sync() on an instance never opened has returned the exit code of
\* its child
C7_Witness ==
    /\ res.op = "run_sync"
    /\ res.kind = "ok"
    /\ ~res.flag
    /\ res.code = Some(0)
    /\ State = "Terminated"

\* C8: when the with block ends, normally or by an error, and the child
\* is alive, __exit__ goes on to its close(); __exit__ returns without
\* raising: a close() that raises ProcessError because the child exited
\* after the liveness check is logged and sends nothing, a close() that
\* passes its check sends SIGTERM to a child still alive and nothing to
\* one that has exited since, and the with statement raises exactly the
\* error of the block, if any.
C8_ScopedExit ==
    /\ [] (scope = "done"
              => propagated = (IF blockExc THEN "BlockError" ELSE "none"))
    /\ [][ /\ (scope = "in" /\ pc = "idle" /\ res'.op = "__exit__"
                /\ child = "alive")
              => (pc' = "exit_close" /\ scope' = "in")
           /\ (scope = "in" /\ scope' = "done")
              => /\ res'.op = "__exit__"
                 /\ res'.kind = "ok"
                 /\ pc = "exit_close"
                       => (child = "exited" /\ logged' = logged + 1
                           /\ sig' = sig /\ ~res'.flag)
                 /\ pc = "exit_send"
                       => /\ logged' = logged
                          /\ res'.flag = (child = "alive")
                          /\ child = "alive" => InQueue(sig', "TERM")
                          /\ child = "exited" => sig' = sig
                 /\ pc = "idle"
                       => (child = "exited" /\ logged' = logged /\ sig' = sig)
         ]_vars

\* the block raised, the child exited between the liveness check and the
\* close, the failure was logged and the block's error came out
C8_Witness ==
    /\ scope = "done"
    /\ blockExc
    /\ logged = 1
    /\ propagated = "BlockError"

\* C9 (as claimed): every call of NonBlockingReadingIO.read returns after
\* finitely many poll rounds, whatever the state of the stream.
C9_ReadReturns == (pc \in {"rd_poll", "rd_read"}) ~> (pc = "idle")

\* C10 (as claimed): read(n) returns at most n bytes; once it has consumed
\* the n bytes asked for, the next poll round ends the call although more
\* data is ready on the stream of a live child; and a poll that reports
\* not ready ends the call with what was accumulated.
C10_StopsAtN ==
    [][ /\ (pc = "rd_poll" /\ n = Some(0) /\ ret # << >> /\ errpipe # << >>
            /\ child = "alive" /\ pc' # pc) => pc' = "idle"
        /\ (pc = "rd_poll" /\ pc' = "idle" /\ res.arg # None)
              => Len(res'.data) <= res.arg[1]
        /\ (pc = "rd_poll" /\ ~poll_ready /\ pc' # pc)
              => (pc' = "idle" /\ res'.data = ret) ]_vars

(***************************************************************************)
(* create_env() over every shape of configuration, called in any state of  *)
(* the lifecycle of a quiet child.                                         *)
(***************************************************************************)
AuxEnvs ==
    { None,
      Some([HOME |-> << "/home/u" >>]),
      Some([PATH |-> << "/sbin" >>]),
      Some([PATH |-> << "/sbin" >>, LANG |-> << "C" >>]) }

AuxPaths == { None, Some(<< >>), Some(<< "/opt" >>), Some(<< "/opt", "/usr/bin" >>) }

EnvConfigs == { Config(i, a, p) : i \in BOOLEAN, a \in AuxEnvs, p \in AuxPaths }

EnvInit ==
    /\ cfg \in EnvConfigs
    /\ prog = Program(0, 0, FALSE, TRUE, FALSE, 0)
    /\ buffer_size = DefaultBufferSize
    /\ Fresh

EnvNext ==
    \/ create_env_call
    \/ open
    \/ ChildExit
    \/ is_alive

EnvSpec == EnvInit /\ [][EnvNext]_vars

\* what the child has written to stderr so far
Written == [i \in 1..errWritten |-> i]

IsPrefix(s, t) == Len(s) <= Len(t) /\ s = SubSeq(t, 1, Len(s))

\* C11 (as claimed): across read_error() calls interleaved with the child's
\* writes, what the calls returned, put end to end, is always a prefix of
\* what the child wrote to stderr, and once the child has written its last
\* byte the repeated calls come to have returned exactly all of it.
C11_NothingLost ==
    /\ [] IsPrefix(errGot, Written)
    /\ (process # None /\ errWritten = prog.err) ~> (errGot = Written)

\* a child that ignores SIGTERM and never exits on its own
Stubborn == prog.ignoresTerm /\ ~prog.exits

\* C12: close() only sends a signal and does not wait for the child: the
\* step of a close() that sends its signal leaves the child alive and the
\* instance Running, with SIGKILL on its way for kill and SIGTERM
\* otherwise.  The timed wait() of a child that ignores SIGTERM and never
\* exits on its own, alive with no SIGKILL on its way, ends in
\* TimeoutExpired with the child alive, the instance Running and no exit
\* code.  The SIGKILL of close(kill=True) stays on its way until the child
\* has exited, and the wait() that follows returns with the instance
\* Terminated: at once if the child has exited, else once the signal has
\* ended it.
C12_CloseOnlySignals ==
    /\ [][ /\ (pc = "close_send" /\ pc' = "idle" /\ res'.flag)
              => (res'.op = "close" /\ res'.kind = "ok"
                  /\ child = "alive" /\ child' = "alive"
                  /\ returncode' = None /\ exitstatus' = exitstatus
                  /\ State' = "Running"
                  /\ InQueue(sig', IF res.arg = Some(TRUE) THEN "KILL" ELSE "TERM")
                  /\ \A s \in {"TERM", "KILL"} : InQueue(sig, s) => InQueue(sig', s))
           /\ (Stubborn /\ pc = "wait_timed" /\ child = "alive"
                /\ ~InQueue(sig, "KILL") /\ pc' = "idle")
              => (res'.kind = "TimeoutExpired" /\ child' = "alive"
                  /\ State' = "Running" /\ returncode' = None)
           /\ InQueue(sig, "KILL") => (InQueue(sig', "KILL") \/ child' = "exited")
           /\ (pc = "idle" /\ pc' = "idle" /\ res'.op = "wait"
                /\ process # None /\ child = "exited")
              => (res'.kind = "ok" /\ State' = "Terminated"
                  /\ res'.code = exitstatus) ]_vars
    /\ (Stubborn /\ pc = "wait_timed" /\ child = "alive" /\ ~InQueue(sig, "KILL"))
          ~> (pc = "idle" /\ res.op = "wait" /\ res.kind = "TimeoutExpired")
    /\ (pc = "wait" /\ InQueue(sig, "KILL"))
          ~> (res.op = "wait" /\ res.kind = "ok" /\ State = "Terminated")

\* the child that ignores SIGTERM was killed, and wait() returned the
\* code of the kill
C12_Witness ==
    /\ Stubborn
    /\ res.op = "wait"
    /\ res.kind = "ok"
    /\ res.code = Some(0 - SIGKILL)
    /\ State = "Terminated"

\* C13 (as claimed): is_alive() answers with the child's liveness as it is
\* now, and an is_alive() call does not make the instance Terminated: with
\* the child dead and only is_alive() called, the instance stays as it
\* was, without an exit code.
C13_IsAliveKeepsState ==
    [][ (res'.op = "is_alive" /\ res'.kind = "ok")
          => (res'.flag = (child = "alive") /\ State' = State) ]_vars

\* C13 (amended): is_alive() answers with the child's liveness as it is
\* now, and the call that finds the child dead makes the instance
\* Terminated itself: it keeps the exit code, with no wait() or close()
\* needed; the call that finds the child alive leaves the instance Running.
C13_IsAliveReaps ==
    [][ (res'.op = "is_alive" /\ res'.kind = "ok")
          => /\ res'.flag = (child = "alive")
             /\ child = "exited"
                   => (State' = "Terminated" /\ returncode' = exitstatus
                       /\ returncode' # None)
             /\ child = "alive" => (State' = "Running" /\ returncode' = None)
      ]_vars

\* is_alive() has found the child dead, and the instance is Terminated
C13_Witness ==
    /\ res.op = "is_alive"
    /\ res.kind = "ok"
    /\ ~res.flag
    /\ State = "Terminated"
    /\ returncode = exitstatus

\* C14 (as claimed): whenever an instance is dropped while its child is
\* still running, as when the callback given to Ludus.run_instance raises
\* before wait(), a signal to end the child is on its way when the drop is
\* done, so that no opened child is left running with nobody holding it.
C14_DroppedIsTerminated ==
    [][ (pc' = "gone" /\ pc # "gone" /\ child = "alive") => sig' # << >> ]_vars

\* create_env() has returned a mapping
Created == res.op = "create_env" /\ res.kind = "ok" /\ envGot # None

\* C15 (as claimed): with inherit_env and a non-empty aux_paths, the PATH
\* create_env() returns is the aux_paths entries in their order followed at
\* once by the inherited PATH, nothing dropped, added or repeated.
C15_PathOrder ==
    (Created /\ cfg.inherit_env /\ cfg.aux_paths # None /\ cfg.aux_paths # Some(<< >>))
        => envGot[1]["PATH"] = cfg.aux_paths[1] \o environ["PATH"]

\* C16 (as claimed): in the mapping create_env() returns, every key of
\* aux_env has the value aux_env gives it, and every inherited key that is
\* not in aux_env, PATH aside, keeps its inherited value.
C16_AuxEnvWins ==
    Created =>
        /\ cfg.aux_env # None =>
              \A k \in DOMAIN cfg.aux_env[1] :
                  HasKey(envGot[1], k) /\ envGot[1][k] = cfg.aux_env[1][k]
        /\ cfg.inherit_env =>
              \A k \in DOMAIN environ \ {"PATH"} :
                  (cfg.aux_env = None \/ ~HasKey(cfg.aux_env[1], k))
                      => (HasKey(envGot[1], k) /\ envGot[1][k] = environ[k])

\* a step of a create_env() call, whatever was called before it
CreateEnvStep == res'.op = "create_env" /\ (res' # res \/ envvars' # envvars)

\* C17: a create_env() call leaves the parent's environment, the
\* configuration, the lifecycle state and the child as they were, spawns
\* nothing, and called right after a create_env() call it returns the
\* mapping that call returned.
C17_Pure ==
    [][ CreateEnvStep
          => /\ environ' = environ
             /\ UNCHANGED << config, process, returncode, pc, tried, child,
                             exitstatus, spawned, sig, withvars, pipes >>
             /\ State' = State
             /\ res.op = "create_env" => (envGot' = envGot /\ res' = res) ]_vars

\* create_env() was called on a Running instance and returned a mapping
C17_Witness ==
    /\ Created
    /\ State = "Running"
    /\ spawned = 1
    /\ environ = os_environ

\* C20 (as claimed): create_env() returns a mapping for every shape of
\* configuration, and open() never fails on building the environment.
C20_NeverFails == (res.op \in {"create_env", "open"}) => res.kind # "KeyError"

\* C18 (as claimed): while the caller is blocked in the wait() of
\* run_sync(), a child that writes a finite output and then exits never
\* stalls on a full pipe: it can write its next byte or exit, so that
\* run_sync() comes to return whatever the volume of the output.
C18_RunSyncNeverStalls ==
    (res.op = "run_sync" /\ pc = "wait" /\ child = "alive" /\ prog.exits)
        => (ENABLED ChildWriteErr \/ ENABLED ChildWriteOut \/ ENABLED ChildExit)

\* C19 (as claimed): a write() that fails because the child is no longer
\* alive raises ProcessError and writes nothing, also when the child exits
\* between the liveness check of write() and the write to stdin; no other
\* kind of error comes out of write().
C19_WriteFailsAsProcessError ==
    (res.op = "write" /\ pc = "idle" /\ res.kind # "ok")
        => (res.kind = "ProcessError" /\ ~res.flag)

====
